---------------------------- MODULE Spec2Model ----------------------------
(***************************************************************************)
(* A model of the FTP client of src/ftp_client.py: the FTPClient session   *)
(* (control socket, line reader, host, cached TYPE), its operations        *)
(* (connect, close, send_command, ensure_connected, quit, handle_list,     *)
(* handle_retr, handle_stor) as sequences of steps of the calling thread   *)
(* and of the transfer's worker thread, the reply parser _read_response    *)
(* over sequences of lines, and the encoding of the PORT command.          *)
(*                                                                         *)
(* The server and the operating system are the environment. In Spec every  *)
(* reply, every read failure and every socket failure is a                 *)
(* nondeterministic choice (env = "any"). In CompliantSpec and             *)
(* PreliminarySpec the server is a process of its own that answers the     *)
(* commands it receives over the control connection and opens the data     *)
(* connection, and nothing fails at the operating system.                  *)
(***************************************************************************)
EXTENDS Integers, Sequences, FiniteSets, TLC

VARIABLES
    control_socket,  \* FTPClient.control_socket: None or the open socket
    control_file,    \* FTPClient.control_file: None or the line reader
    connected_host,  \* FTPClient.connected_host
    last_type,       \* FTPClient.last_type: None, "A" or "I"
    pc,              \* where the calling thread stands ("idle": no call runs)
    op,              \* the call that runs, or ran last, with its arguments
    pre,             \* the session fields as they were when op was called
    result,          \* how the last call ended: "ok" or the exception raised
    trace,           \* what op did so far: commands written, sockets opened ...
    ctl_open,        \* control connections open at the operating system
    listeners,       \* listening sockets open at the operating system
    data_sockets,    \* data sockets open at the operating system
    worker,          \* the transfer's worker thread: none, running, done
    chunks,          \* chunks the worker moved in this transfer
    move_failed,     \* the worker ended by an exception
    hist,            \* the _ensure_type calls of the current connection (Spec)
    last_reply,      \* code of the reply to the PORT or LIST/RETR/STOR op wrote last (0: none read)
    acked_type,      \* mode of the last TYPE of this connection the server did not reject
    env,             \* the environment: "any", "compliant" or "preliminary"
    c2s,             \* control connection: commands the server has not read yet
    s2c,             \* control connection: replies the client has not read yet
    srv,             \* the server: off, greet, idle, connect, download, upload, complete
    lsn,             \* the listener PORT advertised last: none, open, closed
    dc,              \* the data connection: none, pending (not accepted), open, gone
    dbuf,            \* chunks in flight on the data connection
    left,            \* chunks of the transferred file not sent yet
    srv_end,         \* the server closed its end of the data connection
    inp,             \* parser: the lines the server sent before closing
    pos,             \* parser: lines consumed so far
    lines,           \* parser: the lines list of _read_response
    code,            \* parser: the code parsed from the first line
    ppc,             \* parser: start, more, returned, or the exception raised
    listener_ip,     \* PORT: the address listener.getsockname() reports
    control_ip,      \* PORT: the address control_socket.getsockname() reports
    port,            \* PORT: the port listener.getsockname() reports
    port_command,    \* PORT: the command line built, <<>> before
    advertised       \* PORT: the (local_ip, port) pair returned, <<>> before

sess    == <<control_socket, control_file, connected_host, last_type>>
net     == <<ctl_open, listeners, data_sockets>>
thr     == <<worker, chunks, move_failed>>
io      == <<c2s, s2c, last_reply>>
data    == <<lsn, dc, dbuf, left, srv_end>>
parser  == <<inp, pos, lines, code, ppc>>
encoder == <<listener_ip, control_ip, port, port_command, advertised>>
pure    == <<parser, encoder>>
client  == <<sess, pc, op, pre, result, trace, net, thr, hist, acked_type,
             io, env, srv, data>>
vars    == <<client, parser, encoder>>

\* ------------------------------------------------------------------ bounds
MaxListeners == 2   \* listening sockets left open before the model stops transferring
MaxChunks    == 1   \* chunks moved over one data connection (env = "any")
HistLen      == 2   \* _ensure_type calls remembered per connection
MaxLines     == 3   \* lines the server sends before it closes (parser)
FileChunks   == 2   \* chunks of a transferred file (server modelled)
BufCap       == 1   \* chunks the data connection holds in flight
MaxStale     == 1   \* unread replies with which the front end still issues calls

\* ------------------------------------------------------------- vocabulary
None  == "None"
Hosts == {"h1", "h2"}
Modes == {"A", "I"}

\* Reply codes the server may answer with: 1xx that is not 125/150, the two
\* preliminary codes, one that is neither preliminary nor error, error.
Codes == {120, 125, 150, 226, 500}

\* A test that takes every 1xx reply for a preliminary one.
is_any_preliminary(c) == c < 200

\* FTPResponse.is_positive_preliminary
is_positive_preliminary(c) == c \in {125, 150}

\* A test that takes only the codes above 500 for errors.
is_error_above_500(c) == c > 500

\* FTPResponse.is_error
is_error(c) == c >= 400

Session == [control_socket |-> control_socket, control_file |-> control_file,
            connected_host |-> connected_host, last_type |-> last_type]

\* The environment is not modelled as a process: anything may happen.
Free == env = "any"

\* Whether a call of the operating system may fail.
Fails == IF Free THEN BOOLEAN ELSE {FALSE}

\* What a call of _read_response can do on the control channel, seen from
\* its caller: raise RuntimeError (no line reader), raise ConnectionError
\* (the server closed), raise ValueError (malformed first line), or return
\* a reply with some code. With the server modelled it returns the next
\* reply in flight, and blocks while there is none.
Raise(e) == [k |-> "raise", exc |-> e, code |-> 0]
Reply(c) == [k |-> "reply", exc |-> "", code |-> c]

read_response ==
    IF control_file = None
    THEN {Raise("NotEstablished")}
    ELSE IF Free
    THEN {Raise("ConnectionError"), Raise("ValueError")} \cup {Reply(c) : c \in Codes}
    ELSE IF s2c = <<>> THEN {} ELSE {Reply(Head(s2c))}

\* What _send_raw can do: raise RuntimeError (not connected), raise OSError
\* from sendall, or write the line.
send_raw ==
    IF control_socket = None THEN {"NotConnected"}
    ELSE IF Free THEN {"sent", "OSError"} ELSE {"sent"}

\* The control connection after _send_raw did s with the line cmd.
Wrote(s, cmd) ==
    /\ c2s' = IF s = "sent" /\ ~Free THEN Append(c2s, cmd) ELSE c2s
    /\ s2c' = s2c
    /\ last_reply' = 0

\* The control connection after _read_response did r.
Read(r) ==
    /\ s2c' = IF r.k = "reply" /\ ~Free THEN Tail(s2c) ELSE s2c
    /\ c2s' = c2s

\* The same, for a reply whose code the handler looks at after PORT or
\* LIST/RETR/STOR; for the other replies last_reply stays as it is.
Got(r) == Read(r) /\ last_reply' = r.code

Heard(r) == Read(r) /\ last_reply' = last_reply

\* A step that neither writes to nor reads from the control connection.
Quiet == UNCHANGED <<c2s, s2c, last_reply>>

\* The mode a transfer requires (handle_list: A, handle_retr/handle_stor: I).
required_type(kind) == IF kind = "list" THEN "A" ELSE "I"

Transfers == {"list", "retr", "stor"}

Call(kind, exists, named) == [kind |-> kind, exists |-> exists, named |-> named]

\* hist is kept where the server is not modelled (Spec), whose properties
\* read it.
Remember(h, e) ==
    LET a == Append(h, e)
    IN  IF ~Free THEN h ELSE IF Len(a) > HistLen THEN Tail(a) ELSE a

\* -------------------------------------------------------------------- Init
ParserIdle ==
    /\ inp = <<>> /\ pos = 0 /\ lines = <<>> /\ code = 0 /\ ppc = "off"

EncoderIdle ==
    /\ listener_ip = <<>> /\ control_ip = <<>> /\ port = 0
    /\ port_command = <<>> /\ advertised = <<>>

\* The FTPClient after __init__, in the environment e.
ClientInit(e) ==
    /\ control_socket = None
    /\ control_file = None
    /\ connected_host = None
    /\ last_type = None
    /\ pc = "idle"
    /\ op = Call("init", TRUE, TRUE)
    /\ pre = [control_socket |-> None, control_file |-> None,
              connected_host |-> None, last_type |-> None]
    /\ result = "ok"
    /\ trace = <<>>
    /\ ctl_open = 0
    /\ listeners = 0
    /\ data_sockets = 0
    /\ worker = "none"
    /\ chunks = 0
    /\ move_failed = FALSE
    /\ hist = <<>>
    /\ last_reply = 0
    /\ acked_type = None
    /\ env = e
    /\ c2s = <<>>
    /\ s2c = <<>>
    /\ srv = "off"
    /\ lsn = "none"
    /\ dc = "none"
    /\ dbuf = 0
    /\ left = 0
    /\ srv_end = FALSE

ClientIdle == ClientInit("any")

Init == ClientInit("any") /\ ParserIdle /\ EncoderIdle

\* The front end issues the next call; with the server modelled, not
\* before the server has answered what it was sent, and not with more than
\* MaxStale replies unread.
Quiesced == Free \/ (c2s = <<>> /\ srv \in {"off", "idle"} /\ Len(s2c) <= MaxStale)

\* A call starts: remember the arguments and the session as it is now.
Begin(kind, exists, named) ==
    /\ pc = "idle"
    /\ Quiesced
    /\ op' = Call(kind, exists, named)
    /\ pre' = Session

\* A call ends, normally ("ok") or by raising r.
End(r) == pc' = "idle" /\ result' = r

Ended(r) == IF r.k = "raise" THEN r.exc ELSE "ok"

\* ------------------------------------------------- connection and commands

\* A connect() without its guard.
connect_unguarded == FALSE

\* connect, line 49: the guard against a second connection.
already_connected == control_socket # None

\* connect(host): the guard, then getaddrinfo/socket/connect (which may
\* raise OSError before any field is set), then the fields are set and the
\* greeting is awaited. The server greets a new connection.
connect(host) ==
    /\ Begin("connect", TRUE, TRUE)
    /\ trace' = <<>>
    /\ last_reply' = 0
    /\ UNCHANGED <<last_type, listeners, data_sockets, thr, env, data, pure>>
    /\ IF already_connected
       THEN /\ End("AlreadyConnected")
            /\ UNCHANGED <<control_socket, control_file, connected_host, ctl_open,
                           hist, acked_type, c2s, s2c, srv>>
       ELSE \E failed \in Fails :
              IF ~failed
              THEN /\ control_socket' = "sock"
                   /\ control_file' = "file"
                   /\ connected_host' = host
                   /\ ctl_open' = ctl_open + 1
                   /\ hist' = <<>>
                   /\ acked_type' = None
                   /\ c2s' = <<>>
                   /\ s2c' = <<>>
                   /\ srv' = IF Free THEN srv ELSE "greet"
                   /\ pc' = "greeting"
                   /\ result' = "running"
              ELSE /\ End("OSError")
                   /\ UNCHANGED <<control_socket, control_file, connected_host,
                                  ctl_open, hist, acked_type, c2s, s2c, srv>>

\* connect, line 59: the greeting is read; whatever it is, the fields stay.
connect_greeting ==
    /\ pc = "greeting"
    /\ \E r \in read_response : End(Ended(r)) /\ Heard(r)
    /\ trace' = Append(trace, "GREETING")
    /\ UNCHANGED <<sess, op, pre, net, thr, hist, acked_type, env, srv, data, pure>>

\* close(): ff and sf say whether closing the line reader and closing the
\* socket raise. try/finally clears the field and lets the exception go:
\* what follows the failing statement does not run. Closing the socket
\* ends the control connection, for the server too.
close_raises(ff, sf) ==
    \/ control_file # None /\ ff
    \/ ~(control_file # None /\ ff) /\ control_socket # None /\ sf

close_effect(ff, sf) ==
    /\ control_file' = None
    /\ IF control_file # None /\ ff
       THEN UNCHANGED <<control_socket, connected_host, last_type, ctl_open, hist,
                        acked_type, c2s, s2c, srv>>
       ELSE /\ control_socket' = None
            /\ ctl_open' = IF control_socket # None THEN ctl_open - 1 ELSE ctl_open
            /\ hist' = <<>>
            /\ acked_type' = None
            /\ c2s' = <<>>
            /\ s2c' = <<>>
            /\ srv' = IF Free THEN srv ELSE "off"
            /\ IF control_socket # None /\ sf
               THEN UNCHANGED <<connected_host, last_type>>
               ELSE connected_host' = None /\ last_type' = None

close ==
    /\ Begin("close", TRUE, TRUE)
    /\ trace' = <<>>
    /\ last_reply' = 0
    /\ \E ff \in Fails, sf \in Fails :
         /\ close_effect(ff, sf)
         /\ End(IF close_raises(ff, sf) THEN "OSError" ELSE "ok")
    /\ UNCHANGED <<listeners, data_sockets, thr, env, data, pure>>

\* send_command(command) called by the front end (USER, PASS, CWD):
\* _send_raw, then _read_response.
send_command ==
    /\ Begin("cmd", TRUE, TRUE)
    /\ \E s \in send_raw :
         /\ Wrote(s, "USER")
         /\ IF s = "sent"
            THEN trace' = <<"USER">> /\ pc' = "reply" /\ result' = "running"
            ELSE trace' = <<>> /\ End(s)
    /\ UNCHANGED <<sess, net, thr, hist, acked_type, env, srv, data, pure>>

send_command_reply ==
    /\ pc = "reply"
    /\ \E r \in read_response : End(Ended(r)) /\ Heard(r)
    /\ UNCHANGED <<sess, op, pre, trace, net, thr, hist, acked_type, env, srv,
                   data, pure>>

\* ensure_connected()
ensure_connected ==
    /\ Begin("ensure_connected", TRUE, TRUE)
    /\ trace' = <<>>
    /\ last_reply' = 0
    /\ End(IF control_socket = None THEN "NotConnected" ELSE "ok")
    /\ UNCHANGED <<sess, net, thr, hist, acked_type, c2s, s2c, env, srv, data, pure>>

\* quit(): nothing when not connected; else QUIT is sent and close() runs in
\* the finally clause, whatever send_command did.
quit ==
    /\ Begin("quit", TRUE, TRUE)
    /\ UNCHANGED <<listeners, data_sockets, thr, env, data, pure>>
    /\ IF control_socket = None
       THEN /\ trace' = <<>>
            /\ End("ok")
            /\ last_reply' = 0
            /\ UNCHANGED <<sess, ctl_open, hist, acked_type, c2s, s2c, srv>>
       ELSE \E s \in send_raw :
              IF s = "sent"
              THEN /\ trace' = <<"QUIT">>
                   /\ pc' = "quit_reply"
                   /\ result' = "running"
                   /\ Wrote(s, "QUIT")
                   /\ UNCHANGED <<sess, ctl_open, hist, acked_type, srv>>
              ELSE /\ trace' = <<>>
                   /\ last_reply' = 0
                   /\ \E ff \in Fails, sf \in Fails :
                        close_effect(ff, sf) /\ End("OSError")

quit_reply ==
    /\ pc = "quit_reply"
    /\ \E r \in read_response, ff \in Fails, sf \in Fails :
         /\ last_reply' = last_reply
         /\ close_effect(ff, sf)
         /\ End(IF close_raises(ff, sf) THEN "OSError" ELSE Ended(r))
    /\ UNCHANGED <<op, pre, trace, listeners, data_sockets, thr, env, data, pure>>

\* ---------------------------------------------------------------- transfers

\* An _ensure_type that never trusts the cached mode.
type_never_cached(mode) == FALSE

\* _ensure_type, line 143: the cached mode is the required one.
type_cached(mode) == last_type = mode

\* One _ensure_type call, as hist keeps it: the mode it was asked for,
\* whether TYPE was written, and whether it returned normally.
Ensured(mode, sent, ok) == [mode |-> mode, sent |-> sent, ok |-> ok]

\* After _ensure_type returned: handle_stor checks the local file (line 227),
\* the others go on to _prepare_data_connection.
after_type ==
    IF op'.kind = "stor" /\ ~op'.exists
    THEN End("FileNotFoundError")
    ELSE pc' = "prepare" /\ result' = "running"

\* handle_list / handle_retr / handle_stor are called: _ensure_type runs up
\* to the writing of TYPE. exists: the local file of an upload exists;
\* named: a target file name can be derived from the arguments.
handle(kind, exists, named) ==
    /\ listeners < MaxListeners
    /\ Begin(kind, exists, named)
    /\ UNCHANGED <<sess, net, thr, acked_type, env, srv, data, pure>>
    /\ LET mode == required_type(kind)
       IN  IF type_cached(mode)
           THEN /\ trace' = <<>>
                /\ hist' = Remember(hist, Ensured(mode, FALSE, TRUE))
                /\ after_type
                /\ last_reply' = 0
                /\ UNCHANGED <<c2s, s2c>>
           ELSE \E s \in send_raw :
                  /\ Wrote(s, "TYPE")
                  /\ IF s = "sent"
                     THEN /\ trace' = <<"TYPE">>
                          /\ pc' = "type_reply"
                          /\ result' = "running"
                          /\ hist' = hist
                     ELSE /\ trace' = <<>>
                          /\ End(s)
                          /\ hist' = Remember(hist, Ensured(mode, FALSE, FALSE))

\* _ensure_type, lines 145-148: the reply to TYPE.
type_reply ==
    /\ pc = "type_reply"
    /\ UNCHANGED <<control_socket, control_file, connected_host, op, pre, net,
                   thr, env, srv, data, pure>>
    /\ LET mode == required_type(op.kind)
       IN  \E r \in read_response :
             /\ Heard(r)
             /\ IF r.k = "reply" /\ ~is_error(r.code)
                THEN /\ last_type' = mode
                     /\ acked_type' = mode
                     /\ trace' = Append(trace, "TYPE_ok")
                     /\ hist' = Remember(hist, Ensured(mode, TRUE, TRUE))
                     /\ after_type
                ELSE /\ last_type' = last_type
                     /\ acked_type' = acked_type
                     /\ trace' = trace
                     /\ hist' = Remember(hist, Ensured(mode, TRUE, FALSE))
                     /\ End(IF r.k = "raise" THEN r.exc ELSE "TypeFailed")

\* The data connection before a transfer: a new listener, nothing in flight.
listening ==
    IF Free THEN UNCHANGED <<data, chunks>>
    ELSE /\ lsn' = "open" /\ dc' = "none" /\ dbuf' = 0 /\ left' = 0
         /\ srv_end' = FALSE /\ chunks' = 0

\* listener.close() before accept: a connection waiting in the backlog is
\* reset.
listener_closed ==
    IF Free THEN UNCHANGED data
    ELSE /\ lsn' = "closed"
         /\ dc' = IF dc = "pending" THEN "gone" ELSE dc
         /\ UNCHANGED <<dbuf, left, srv_end>>

\* _prepare_data_connection, lines 120-135: the guard, the listener, and the
\* writing of PORT.
prepare ==
    /\ pc = "prepare"
    /\ UNCHANGED <<sess, op, pre, ctl_open, data_sockets, worker, move_failed,
                   hist, acked_type, env, srv, pure>>
    /\ IF control_socket = None
       THEN End("NotConnected") /\ UNCHANGED <<trace, listeners, data, chunks>> /\ Quiet
       ELSE /\ listeners' = listeners + 1
            /\ listening
            /\ \E s \in send_raw :
                 /\ Wrote(s, "PORT")
                 /\ IF s = "sent"
                    THEN /\ trace' = trace \o <<"LISTEN", "PORT">>
                         /\ pc' = "port_reply"
                         /\ result' = "running"
                    ELSE /\ trace' = Append(trace, "LISTEN")
                         /\ End(s)

\* The file name handle_retr (line 196) and handle_stor (line 230) derive.
target_path_missing == op.kind \in {"retr", "stor"} /\ ~op.named

\* _prepare_data_connection, lines 136-140: the reply to PORT; then, back in
\* the handler, the target file name.
port_reply ==
    /\ pc = "port_reply"
    /\ UNCHANGED <<sess, op, pre, ctl_open, data_sockets, thr, hist, acked_type,
                   env, srv, pure>>
    /\ \E r \in read_response :
         /\ Got(r)
         /\ IF r.k = "raise"
            THEN End(r.exc) /\ UNCHANGED <<trace, listeners, data>>
            ELSE IF is_error(r.code)
            THEN /\ listeners' = listeners - 1
                 /\ listener_closed
                 /\ trace' = Append(trace, "LISTEN_CLOSED")
                 /\ End("PortFailed")
            ELSE /\ listeners' = listeners
                 /\ UNCHANGED data
                 /\ trace' = Append(trace, "PORT_ok")
                 /\ IF target_path_missing
                    THEN End("ValueError")
                    ELSE pc' = "command" /\ result' = "running"

\* The command line of a transfer.
verb(kind) ==
    CASE kind = "list" -> "LIST" [] kind = "retr" -> "RETR" [] kind = "stor" -> "STOR"

\* The handler writes LIST, RETR or STOR.
command ==
    /\ pc = "command"
    /\ UNCHANGED <<sess, op, pre, net, thr, hist, acked_type, env, srv, data, pure>>
    /\ \E s \in send_raw :
         /\ Wrote(s, verb(op.kind))
         /\ IF s = "sent"
            THEN /\ trace' = Append(trace, "XFER")
                 /\ pc' = "prelim"
                 /\ result' = "running"
            ELSE trace' = trace /\ End(s)

\* The reply to LIST, RETR or STOR (lines 157-162, 200-205, 234-239).
prelim ==
    /\ pc = "prelim"
    /\ UNCHANGED <<sess, op, pre, ctl_open, data_sockets, thr, hist, acked_type,
                   env, srv, pure>>
    /\ \E r \in read_response :
         /\ Got(r)
         /\ IF r.k = "raise"
            THEN End(r.exc) /\ UNCHANGED <<trace, listeners, data>>
            ELSE IF ~is_positive_preliminary(r.code)
            THEN /\ listeners' = listeners - 1
                 /\ listener_closed
                 /\ trace' = Append(trace, "LISTEN_CLOSED")
                 /\ End(IF is_error(r.code) THEN "XferFailed" ELSE "ok")
            ELSE /\ listeners' = listeners
                 /\ UNCHANGED data
                 /\ trace' = Append(trace, "PRELIM_ok")
                 /\ pc' = "accept"
                 /\ result' = "running"

\* What listener.accept() can do: return a connection (TRUE) or raise
\* (FALSE). With the server modelled it returns the connection the server
\* opened, and blocks while there is none.
accepts ==
    IF Free THEN BOOLEAN ELSE IF dc = "pending" THEN {TRUE} ELSE {}

\* listener.accept() and listener.close(), then the worker thread is
\* started. accept may raise, and then the listener is not closed.
accept ==
    /\ pc = "accept"
    /\ UNCHANGED <<sess, op, pre, ctl_open, hist, acked_type, io, env, srv, pure>>
    /\ \E accepted \in accepts :
         IF accepted
         THEN /\ data_sockets' = data_sockets + 1
              /\ listeners' = listeners - 1
              /\ trace' = trace \o <<"ACCEPT", "LISTEN_CLOSED">>
              /\ worker' = "running"
              /\ chunks' = 0
              /\ move_failed' = FALSE
              /\ pc' = "join"
              /\ result' = "running"
              /\ IF Free THEN UNCHANGED data
                 ELSE /\ lsn' = "closed" /\ dc' = "open"
                      /\ UNCHANGED <<dbuf, left, srv_end>>
         ELSE /\ End("OSError")
              /\ UNCHANGED <<trace, listeners, data_sockets, thr, data>>

\* The worker sends (handle_stor) rather than receives.
uploading == op.kind = "stor"

\* The worker moves one chunk (recv and write, or read and sendall): one
\* that is in flight, or one of the file into the connection's buffer.
worker_chunk ==
    /\ worker = "running"
    /\ IF Free
       THEN chunks < MaxChunks /\ UNCHANGED data
       ELSE IF uploading
       THEN /\ left > 0 /\ dbuf < BufCap
            /\ left' = left - 1 /\ dbuf' = dbuf + 1
            /\ UNCHANGED <<lsn, dc, srv_end>>
       ELSE /\ dbuf > 0
            /\ dbuf' = dbuf - 1
            /\ UNCHANGED <<lsn, dc, left, srv_end>>
    /\ chunks' = chunks + 1
    /\ trace' = Append(trace, "BYTE")
    /\ UNCHANGED <<sess, pc, op, pre, result, net, worker, move_failed, hist,
                   acked_type, io, env, srv, pure>>

\* The worker leaves the with statement, which closes the data socket.
data_closed ==
    /\ worker' = "done"
    /\ data_sockets' = data_sockets - 1
    /\ trace' = Append(trace, "DATA_CLOSED")
    /\ IF Free THEN UNCHANGED data
       ELSE /\ dc' = "gone"
            /\ dbuf' = IF uploading THEN dbuf ELSE 0
            /\ UNCHANGED <<lsn, left, srv_end>>
    /\ UNCHANGED <<sess, pc, op, pre, result, ctl_open, listeners, chunks, hist,
                   acked_type, io, env, srv, pure>>

\* The worker ends at the end of the data: recv returned nothing after the
\* server closed, or the file is read to its end.
worker_end ==
    /\ worker = "running"
    /\ Free \/ IF uploading THEN left = 0 ELSE dbuf = 0 /\ srv_end
    /\ move_failed' = FALSE
    /\ data_closed

\* The worker ends by an exception of open, recv, write or sendall, which
\* dies with the thread.
worker_raise ==
    /\ worker = "running"
    /\ move_failed' = TRUE
    /\ data_closed

\* A handler that does not wait for its worker.
not_joined == TRUE

\* t.join() returns: the worker has ended.
joined == worker = "done"

join ==
    /\ pc = "join"
    /\ joined
    /\ pc' = "completion"
    /\ UNCHANGED <<sess, op, pre, result, trace, net, thr, hist, acked_type, io,
                   env, srv, data, pure>>

\* The completion reply is read (lines 190, 222, 256); its code is printed
\* and not looked at.
completion ==
    /\ pc = "completion"
    /\ \E r \in read_response : End(Ended(r)) /\ Heard(r)
    /\ trace' = Append(trace, "COMPLETION")
    /\ UNCHANGED <<sess, op, pre, net, thr, hist, acked_type, env, srv, data, pure>>

\* ---------------------------------------------------------- specification
\* The arguments that matter to a handler: whether the local file exists,
\* to handle_stor; whether a file name can be derived, to handle_retr and
\* handle_stor.
Arguments(k, e, n) ==
    /\ k = "list" => (e /\ n)
    /\ k = "retr" => e

\* The operations of the client the front end calls.
Calls ==
    \/ \E h \in Hosts : connect(h)
    \/ close
    \/ send_command
    \/ ensure_connected
    \/ quit
    \/ \E k \in Transfers, e \in BOOLEAN, n \in BOOLEAN :
          /\ Arguments(k, e, n)
          /\ handle(k, e, n)

Next ==
    \/ \E h \in Hosts : connect(h)
    \/ connect_greeting
    \/ close
    \/ send_command
    \/ send_command_reply
    \/ ensure_connected
    \/ quit
    \/ quit_reply
    \/ \E k \in Transfers, e \in BOOLEAN, n \in BOOLEAN :
          /\ Arguments(k, e, n)
          /\ handle(k, e, n)
    \/ type_reply
    \/ prepare
    \/ port_reply
    \/ command
    \/ prelim
    \/ accept
    \/ worker_chunk
    \/ worker_end
    \/ worker_raise
    \/ join
    \/ completion

Spec == Init /\ [][Next]_vars

\* -------------------------------------------------------------- the server
\* Codes that end the reply to a command.
Finals == {226, 500}

\* The commands that start a transfer.
TransferVerbs == {"LIST", "RETR", "STOR"}

\* The server greets a new control connection.
srv_greeting ==
    /\ srv = "greet"
    /\ \E c \in Finals : s2c' = Append(s2c, c)
    /\ srv' = "idle"
    /\ UNCHANGED <<sess, pc, op, pre, result, trace, net, thr, hist, acked_type,
                   c2s, last_reply, env, data, pure>>

\* The server reads the next command and answers it. A transfer command
\* answered with 125 or 150 starts a transfer of a file of n chunks. Any
\* other answer is the only one, except that the server of
\* PreliminarySpec follows every 1xx answer to a transfer command with a
\* completion reply.
srv_reply ==
    /\ srv = "idle"
    /\ c2s # <<>>
    /\ c2s' = Tail(c2s)
    /\ LET cmd == Head(c2s)
       IN  \E c \in Codes, n \in 0..FileChunks :
             /\ s2c' = Append(s2c, c)
             /\ IF cmd \in TransferVerbs /\ c \in {125, 150}
                THEN /\ srv' = IF cmd = "STOR" THEN "connect_in" ELSE "connect_out"
                     /\ left' = n
                ELSE /\ srv' = IF cmd \in TransferVerbs /\ c < 200 /\ env = "preliminary"
                               THEN "complete" ELSE "idle"
                     /\ left' = left
    /\ UNCHANGED <<sess, pc, op, pre, result, trace, net, thr, hist, acked_type,
                   last_reply, env, lsn, dc, dbuf, srv_end, pure>>

\* The server connects to the advertised port; the connection waits in the
\* listener's backlog, or is refused when the listener is closed.
srv_connect ==
    /\ srv \in {"connect_in", "connect_out"}
    /\ IF lsn = "open"
       THEN /\ dc' = "pending"
            /\ srv' = IF srv = "connect_in" THEN "upload" ELSE "download"
       ELSE /\ dc' = dc
            /\ srv' = "complete"
    /\ UNCHANGED <<sess, pc, op, pre, result, trace, net, thr, hist, acked_type,
                   io, env, lsn, dbuf, left, srv_end, pure>>

\* LIST, RETR: the server sends a chunk, when the connection takes one.
srv_send ==
    /\ srv = "download"
    /\ dc \in {"pending", "open"}
    /\ left > 0
    /\ dbuf < BufCap
    /\ left' = left - 1
    /\ dbuf' = dbuf + 1
    /\ UNCHANGED <<sess, pc, op, pre, result, trace, net, thr, hist, acked_type,
                   io, env, srv, lsn, dc, srv_end, pure>>

\* LIST, RETR: the server closes the data connection, after the last chunk
\* or because the client is gone.
srv_close ==
    /\ srv = "download"
    /\ left = 0 \/ dc = "gone"
    /\ srv_end' = TRUE
    /\ srv' = "complete"
    /\ UNCHANGED <<sess, pc, op, pre, result, trace, net, thr, hist, acked_type,
                   io, env, lsn, dc, dbuf, left, pure>>

\* STOR: the server receives a chunk.
srv_recv ==
    /\ srv = "upload"
    /\ dbuf > 0
    /\ dbuf' = dbuf - 1
    /\ UNCHANGED <<sess, pc, op, pre, result, trace, net, thr, hist, acked_type,
                   io, env, srv, lsn, dc, left, srv_end, pure>>

\* STOR: the server reads the end of the data and closes.
srv_eof ==
    /\ srv = "upload"
    /\ dbuf = 0
    /\ dc = "gone"
    /\ srv_end' = TRUE
    /\ srv' = "complete"
    /\ UNCHANGED <<sess, pc, op, pre, result, trace, net, thr, hist, acked_type,
                   io, env, lsn, dc, dbuf, left, pure>>

\* The server sends the completion reply of a transfer.
srv_complete ==
    /\ srv = "complete"
    /\ \E c \in Finals : s2c' = Append(s2c, c)
    /\ srv' = "idle"
    /\ UNCHANGED <<sess, pc, op, pre, result, trace, net, thr, hist, acked_type,
                   c2s, last_reply, env, data, pure>>

\* What the three processes do once a call has started.
MainStep ==
    \/ connect_greeting
    \/ send_command_reply
    \/ quit_reply
    \/ type_reply
    \/ prepare
    \/ port_reply
    \/ command
    \/ prelim
    \/ accept
    \/ join
    \/ completion

WorkerStep == worker_chunk \/ worker_end

ServerStep ==
    \/ srv_greeting
    \/ srv_reply
    \/ srv_connect
    \/ srv_send
    \/ srv_close
    \/ srv_recv
    \/ srv_eof
    \/ srv_complete

PairNext == Calls \/ MainStep \/ WorkerStep \/ worker_raise \/ ServerStep

\* Each thread of the client and the server go on when they can; the front
\* end need not call, and the worker need not fail.
Fairness == WF_vars(MainStep) /\ WF_vars(WorkerStep) /\ WF_vars(ServerStep)

\* The client with a server that sends one reply per command, and for a
\* transfer command 125/150, the data, the close and one completion reply.
CompliantInit == ClientInit("compliant") /\ ParserIdle /\ EncoderIdle

CompliantSpec == CompliantInit /\ [][PairNext]_vars /\ Fairness

\* The client with a server that sends a completion reply after every 1xx
\* answer to a transfer command.
PreliminaryInit == ClientInit("preliminary") /\ ParserIdle /\ EncoderIdle

PreliminarySpec == PreliminaryInit /\ [][PairNext]_vars /\ Fairness

\* ------------------------------------------------------ the reply parser
\* Lines are sequences of characters, without their CRLF.
Digit == {"0", "1", "2", "3", "4", "5", "6", "7", "8", "9"}

DigitVal(c) ==
    CASE c = "0" -> 0 [] c = "1" -> 1 [] c = "2" -> 2 [] c = "3" -> 3
      [] c = "4" -> 4 [] c = "5" -> 5 [] c = "6" -> 6 [] c = "7" -> 7
      [] c = "8" -> 8 [] c = "9" -> 9

DigitChar(n) ==
    CASE n = 0 -> "0" [] n = 1 -> "1" [] n = 2 -> "2" [] n = 3 -> "3"
      [] n = 4 -> "4" [] n = 5 -> "5" [] n = 6 -> "6" [] n = 7 -> "7"
      [] n = 8 -> "8" [] n = 9 -> "9"

\* line.rstrip("\r\n"): every trailing CR and LF goes.
RECURSIVE rstrip(_)
rstrip(l) ==
    IF l # <<>> /\ l[Len(l)] \in {"\r", "\n"}
    THEN rstrip(SubSeq(l, 1, Len(l) - 1))
    ELSE l

\* len(first_line) >= 3 and first_line[:3].isdigit()
isdigit3(l) == Len(l) >= 3 /\ \A i \in 1..3 : l[i] \in Digit

\* int(first_line[:3])
int3(l) == 100 * DigitVal(l[1]) + 10 * DigitVal(l[2]) + DigitVal(l[3])

\* f"{code}": the decimal digits of an int, with no leading zero.
str(n) ==
    IF n < 10 THEN <<DigitChar(n)>>
    ELSE IF n < 100 THEN <<DigitChar(n \div 10), DigitChar(n % 10)>>
    ELSE <<DigitChar(n \div 100), DigitChar((n \div 10) % 10), DigitChar(n % 10)>>

\* next_line.startswith(prefix)
startswith(l, prefix) ==
    Len(l) >= Len(prefix) /\ SubSeq(l, 1, Len(prefix)) = prefix

\* line 112: the line that ends a multi-line reply.
is_last_line(l, c) == startswith(l, str(c) \o <<" ">>)

\* The lines a server may send.
ParserLines ==
    { <<"1", "2", "0", "-", "a">>,
      <<"1", "2", "0", " ", "b">>,
      <<"1", "2", "0">>,
      <<"1", "2", "0", "0", " ">>,
      <<"1", "2", "0", " ", "\r">>,
      <<"0", "1", "2", "-", "a">>,
      <<"0", "1", "2", " ", "b">>,
      <<"1", "2", " ", "b">>,
      <<"1", "2">>,
      <<"a", "b", "c", " ">>,
      <<>> }

RECURSIVE LineSeqs(_)
LineSeqs(n) ==
    IF n = 0 THEN {<<>>}
    ELSE LET shorter == LineSeqs(n - 1)
         IN  shorter \cup {Append(q, l) : q \in {x \in shorter : Len(x) = n - 1},
                                          l \in ParserLines}


\* _read_response is called on a source that holds the lines inp and is
\* then closed by the server.
ParserInit ==
    /\ ClientIdle
    /\ EncoderIdle
    /\ inp \in LineSeqs(MaxLines)
    /\ pos = 0
    /\ lines = <<>>
    /\ code = 0
    /\ ppc = "start"

\* _read_response, lines 93-104 (and the return of a single-line reply).
read_first_line ==
    /\ ppc = "start"
    /\ IF pos = Len(inp)
       THEN ppc' = "ConnectionError" /\ UNCHANGED <<pos, lines, code>>
       ELSE LET first_line == rstrip(inp[pos + 1])
            IN  /\ pos' = pos + 1
                /\ lines' = Append(lines, first_line)
                /\ IF ~isdigit3(first_line)
                   THEN ppc' = "ValueError" /\ code' = code
                   ELSE /\ code' = int3(first_line)
                        /\ ppc' = IF Len(first_line) > 3 /\ first_line[4] = "-"
                                  THEN "more" ELSE "returned"
    /\ UNCHANGED <<inp, client, encoder>>

\* _read_response, lines 106-113: one turn of the loop.
read_next_line ==
    /\ ppc = "more"
    /\ IF pos = Len(inp)
       THEN ppc' = "ConnectionError" /\ UNCHANGED <<pos, lines>>
       ELSE LET next_line == rstrip(inp[pos + 1])
            IN  /\ pos' = pos + 1
                /\ lines' = Append(lines, next_line)
                /\ ppc' = IF is_last_line(next_line, code) THEN "returned" ELSE "more"
    /\ UNCHANGED <<inp, code, client, encoder>>

ParserNext == read_first_line \/ read_next_line

ParserSpec == ParserInit /\ [][ParserNext]_vars

\* ------------------------------------------------------- the PORT command
\* Addresses are sequences of characters, as getsockname() returns them.
Wildcard == <<"0", ".", "0", ".", "0", ".", "0">>

\* What control_socket.getsockname()[0] may be: the address of the local
\* end of a connected IPv4 socket.
ControlAddrs ==
    { <<"1", "0", ".", "0", ".", "0", ".", "5">>,
      <<"1", "9", "2", ".", "1", "6", "8", ".", "1", ".", "5">> }

\* What listener.getsockname()[0] may be: the wildcard the listener is
\* bound to, or the address of an interface.
ListenerAddrs == {Wildcard, <<"1", "0", ".", "0", ".", "0", ".", "5">>}

\* What listener.getsockname()[1] may be.
Ports == 0..65535

\* s.split(sep): the pieces of s between the separators.
RECURSIVE split(_, _)
split(s, sep) ==
    IF \A i \in 1..Len(s) : s[i] # sep
    THEN <<s>>
    ELSE LET i == CHOOSE k \in 1..Len(s) :
                    s[k] = sep /\ \A j \in 1..(k - 1) : s[j] # sep
         IN  <<SubSeq(s, 1, i - 1)>> \o split(SubSeq(s, i + 1, Len(s)), sep)

\* sep.join(parts)
RECURSIVE str_join(_, _)
str_join(parts, sep) ==
    IF parts = <<>> THEN <<>>
    ELSE IF Len(parts) = 1 THEN parts[1]
    ELSE parts[1] \o <<sep>> \o str_join(Tail(parts), sep)

\* A port_high computed with the wrong divisor.
port_high_255(p) == p \div 255

\* line 132
port_high(p) == p \div 256

\* line 133
port_low(p) == p % 256

\* An address selection that advertises what the listener reports.
listener_address(l, c) == l

\* lines 129-130: the outward facing address.
local_ip(l, c) == IF l = Wildcard THEN c ELSE l

\* lines 134-135: the command line.
port_line(ip, p) ==
    <<"P", "O", "R", "T", " ">>
        \o str_join(split(ip, ".") \o <<str(port_high(p)), str(port_low(p))>>, ",")

\* _prepare_data_connection has a listener on some port and a connected
\* control socket.
PortInit ==
    /\ ClientIdle
    /\ ParserIdle
    /\ listener_ip \in ListenerAddrs
    /\ control_ip \in ControlAddrs
    /\ port \in Ports
    /\ port_command = <<>>
    /\ advertised = <<>>

\* _prepare_data_connection, lines 127-135 and the value returned at 140.
encode_port ==
    /\ port_command = <<>>
    /\ port_command' = port_line(local_ip(listener_ip, control_ip), port)
    /\ advertised' = <<local_ip(listener_ip, control_ip), port>>
    /\ UNCHANGED <<listener_ip, control_ip, port, client, parser>>

PortNext == encode_port

PortSpec == PortInit /\ [][PortNext]_vars

\* ------------------------------------------------------------- properties
\* The place of the first e in the trace of the call, 0 when there is none.
Idx(e) ==
    IF \E i \in 1..Len(trace) : trace[i] = e
    THEN CHOOSE i \in 1..Len(trace) :
           trace[i] = e /\ \A j \in 1..(i - 1) : trace[j] # e
    ELSE 0

Did(e) == Idx(e) > 0

\* b happened only after a.
Before(a, b) == Did(b) => (Did(a) /\ Idx(a) < Idx(b))

Finished(kind) == pc = "idle" /\ op.kind = kind

Disconnected ==
    [control_socket |-> None, control_file |-> None,
     connected_host |-> None, last_type |-> None]

\* C1: quit() called on a connected session ends with the control socket
\* and the line reader released and no control connection open, whatever
\* the reply to QUIT and also when writing QUIT or reading the reply fails;
\* quit() called on a disconnected session writes nothing.
C1_QuitAlwaysCloses ==
    Finished("quit") =>
        /\ control_socket = None
        /\ control_file = None
        /\ ctl_open = 0
        /\ (pre.control_socket = None => trace = <<>>)

\* C2: when a listing, download or upload has finished, normally or by an
\* exception, no listening socket and no data socket is open; so at no time
\* is more than one data-channel socket open.
C2_NoDataSocketLeftOpen ==
    /\ listeners + data_sockets <= 1
    /\ pc = "idle" => (listeners = 0 /\ data_sockets = 0)

\* C3: in every transfer the reply to PORT is validated before LIST, RETR
\* or STOR is written, the preliminary reply is validated before accept,
\* accept returns before a byte moves, and the completion reply is read
\* only after the last byte moved and the data socket was closed.
C3_StepsInOrder ==
    op.kind \in Transfers =>
        /\ Before("PORT", "PORT_ok")
        /\ Before("PORT_ok", "XFER")
        /\ Before("XFER", "PRELIM_ok")
        /\ Before("PRELIM_ok", "ACCEPT")
        /\ Before("ACCEPT", "BYTE")
        /\ Before("ACCEPT", "DATA_CLOSED")
        /\ \A i \in 1..Len(trace) :
             trace[i] = "BYTE" => ~Did("DATA_CLOSED") \/ i < Idx("DATA_CLOSED")
        /\ Before("DATA_CLOSED", "COMPLETION")
        /\ (pc = "completion" \/ Did("COMPLETION")) =>
             (data_sockets = 0 /\ worker = "done")

C3_Witness ==
    /\ Finished("retr")
    /\ result = "ok"
    /\ Did("BYTE")
    /\ Did("COMPLETION")

\* C4: on one connection, a transfer whose _ensure_type returned normally
\* wrote TYPE exactly when the mode it requires differed from the cached
\* mode; and of two transfers in a row whose TYPE, if any, was accepted, the
\* second wrote TYPE exactly when its mode differs from the first's.
C4_TypeSentIffModeDiffers ==
    /\ (op.kind \in Transfers /\ pc # "type_reply") =>
          /\ hist # <<>>
          /\ LET e == hist[Len(hist)]
             IN  /\ e.mode = required_type(op.kind)
                 /\ e.sent = Did("TYPE")
                 /\ e.ok => (e.sent <=> pre.last_type # e.mode)
    /\ \A i \in 2..Len(hist) :
          (hist[i - 1].ok /\ hist[i].ok) =>
              (hist[i].sent <=> hist[i].mode # hist[i - 1].mode)

\* A binary transfer that wrote no TYPE (one went before it), then a
\* listing that wrote TYPE A.
C4_Witness ==
    /\ hist = <<Ensured("I", FALSE, TRUE), Ensured("A", TRUE, TRUE)>>
    /\ Finished("list")
    /\ result = "ok"

\* C5: on a connected session, an upload of a local file that does not
\* exist ends with FileNotFoundError, and no listening socket was opened
\* and no PORT written.
C5_MissingFileNotFound ==
    (Finished("stor") /\ ~op.exists
       /\ pre.control_socket # None /\ pre.control_file # None) =>
        /\ result = "FileNotFoundError"
        /\ ~Did("LISTEN")
        /\ ~Did("PORT")

\* What the claims say of a block of lines: the first line begins with
\* three digits; it opens a multi-line block; l is the block's last line.
ThreeDigits(l) == Len(l) >= 3 /\ l[1] \in Digit /\ l[2] \in Digit /\ l[3] \in Digit

OpensBlock(l) == Len(l) >= 4 /\ l[4] = "-"

ClosesBlock(l, first) ==
    Len(l) >= 4 /\ SubSeq(l, 1, 4) = SubSeq(first, 1, 3) \o <<" ">>

Sent(i) == rstrip(inp[i])

\* The number of lines of the reply that inp begins with, 0 when inp holds
\* no whole reply.
ReplyEnd ==
    IF inp = <<>> \/ ~ThreeDigits(Sent(1)) THEN 0
    ELSE IF ~OpensBlock(Sent(1)) THEN 1
    ELSE IF \E j \in 2..Len(inp) : ClosesBlock(Sent(j), Sent(1))
    THEN CHOOSE j \in 2..Len(inp) :
           /\ ClosesBlock(Sent(j), Sent(1))
           /\ \A k \in 2..(j - 1) : ~ClosesBlock(Sent(k), Sent(1))
    ELSE 0

ParserDone == ppc \notin {"off", "start", "more"}

\* C6: when the first line begins with three digits, the parser returns
\* that code and exactly the lines up to the reply's end: one line when the
\* 4th character is not '-', else all lines up to and including the first
\* later line that begins with the code and a space.
C6_ParserReturnsTheReply ==
    (ParserDone /\ inp # <<>> /\ ThreeDigits(Sent(1))) =>
        /\ ReplyEnd > 0 => ppc = "returned"
        /\ ppc = "returned" =>
              /\ code = int3(Sent(1))
              /\ pos = ReplyEnd
              /\ lines = [i \in 1..ReplyEnd |-> Sent(i)]

\* C7: the parser raises exactly when the source is closed before the
\* first line, the first line does not begin with three digits, or the
\* source is closed inside a multi-line block before its last line; it
\* returns no reply built from a block whose last line never came.
C7_ParserFailsExactlyWhen ==
    ParserDone =>
        /\ ppc # "returned" <=> ReplyEnd = 0
        /\ (ppc = "returned" /\ OpensBlock(lines[1])) =>
              ClosesBlock(lines[Len(lines)], lines[1])

\* C8: connect() on a session that has a control socket raises, opens no
\* socket and changes no field; at most one control connection is open.
C8_OneControlConnection ==
    /\ ctl_open <= 1
    /\ (Finished("connect") /\ pre.control_socket # None) =>
          /\ result = "AlreadyConnected"
          /\ Session = pre
          /\ ctl_open = 1
          /\ trace = <<>>

C8_Witness ==
    /\ Finished("connect")
    /\ result = "AlreadyConnected"
    /\ pre.last_type = "I"
    /\ pre.connected_host = "h2"

\* C9: on a disconnected session send_command, ensure_connected and every
\* transfer raise the not-connected error, write nothing, open no listener
\* and change no field.
C9_DisconnectedCallsFail ==
    (pc = "idle" /\ pre.control_socket = None
       /\ op.kind \in {"cmd", "ensure_connected"} \cup Transfers) =>
        /\ result = "NotConnected"
        /\ trace = <<>>
        /\ Session = pre

\* C10: close() never raises and leaves the session disconnected: line
\* reader, socket, host and cached mode all None (so that a second close()
\* changes nothing), also when closing the line reader or the socket fails.
C10_CloseNeverRaises ==
    Finished("close") =>
        /\ result = "ok"
        /\ Session = Disconnected

\* The reply to the transfer command of the call has been read, and no
\* reply after it.
TransferReplied == Did("XFER") /\ last_reply # 0 /\ ~Did("COMPLETION")

\* C11: when the reply to LIST/RETR/STOR is an error reply (code >= 400)
\* the call fails with the transfer error, the listener is closed and accept
\* is never attempted; when it is neither 125/150 nor an error the call
\* returns normally with the listener closed, accept never attempted and no
\* completion reply read; accept is attempted only after a 125 or 150 reply.
C11_TransferReplyDecides ==
    TransferReplied =>
        /\ last_reply >= 400 =>
              /\ pc = "idle" /\ result = "XferFailed"
              /\ Did("LISTEN_CLOSED") /\ ~Did("ACCEPT") /\ worker # "running"
        /\ (last_reply < 400 /\ last_reply \notin {125, 150}) =>
              /\ pc = "idle" /\ result = "ok"
              /\ Did("LISTEN_CLOSED") /\ ~Did("ACCEPT") /\ worker # "running"
        /\ (pc = "accept" \/ Did("ACCEPT")) => last_reply \in {125, 150}
        /\ last_reply \in {125, 150} =>
              \/ pc \in {"accept", "join", "completion"}
              \/ pc = "idle" /\ result = "OSError" /\ ~Did("ACCEPT")

\* A transfer whose command was answered 226 at once has returned normally
\* without a data phase.
C11_Witness ==
    /\ Finished("retr") /\ TransferReplied /\ last_reply = 226
    /\ result = "ok" /\ Did("LISTEN_CLOSED") /\ ~Did("ACCEPT")

\* C12: when the reply to PORT is an error reply, that step closes the
\* listener and ends the call with the transfer error, and the call has
\* written no LIST/RETR/STOR.
C12_PortRejected ==
    [][(pc = "port_reply" /\ last_reply' >= 400) =>
          /\ pc' = "idle"
          /\ result' = "PortFailed"
          /\ listeners' = listeners - 1
          /\ Did("LISTEN_CLOSED")'
          /\ ~Did("XFER")']_vars

\* A transfer ended by the rejection of PORT.
C12_Witness ==
    /\ \E k \in Transfers : Finished(k)
    /\ Did("PORT") /\ last_reply = 500 /\ result = "PortFailed"
    /\ Did("LISTEN_CLOSED") /\ ~Did("XFER")

\* int(s) of a sequence of decimal digits.
RECURSIVE Decimal(_)
Decimal(s) ==
    IF s = <<>> THEN 0
    ELSE 10 * Decimal(SubSeq(s, 1, Len(s) - 1)) + DigitVal(s[Len(s)])

\* The comma separated fields of the argument of the PORT command built.
PortFields == split(SubSeq(port_command, 6, Len(port_command)), ",")

PortBuilt == port_command # <<>>

\* C13: for every listener port p in 0..65535 the last two fields of the
\* PORT argument are p // 256 and p % 256, both in 0..255, with
\* 256 * high + low = p, after the four octets of the advertised address;
\* for port 51200 on 10.0.0.5 the command is PORT 10,0,0,5,200,0.
C13_PortEncoding ==
    PortBuilt =>
        /\ SubSeq(port_command, 1, 5) = <<"P", "O", "R", "T", " ">>
        /\ Len(PortFields) = 6
        /\ SubSeq(PortFields, 1, 4) = split(advertised[1], ".")
        /\ \A i \in 5..6 : PortFields[i] # <<>> /\ \A j \in 1..Len(PortFields[i]) :
                              PortFields[i][j] \in Digit
        /\ LET high == Decimal(PortFields[5])
               low  == Decimal(PortFields[6])
           IN  /\ high = port \div 256
               /\ low = port % 256
               /\ high \in 0..255
               /\ low \in 0..255
               /\ 256 * high + low = port
        /\ (port = 51200 /\ advertised[1] = <<"1", "0", ".", "0", ".", "0", ".", "5">>) =>
              port_command = <<"P", "O", "R", "T", " ", "1", "0", ",", "0", ",",
                               "0", ",", "5", ",", "2", "0", "0", ",", "0">>

\* The command for the highest port has been built.
C13_Witness == PortBuilt /\ port = 65535 /\ Decimal(PortFields[5]) = 255

\* C14: the address advertised in PORT is never 0.0.0.0; when the listener
\* reports 0.0.0.0, it is the control socket's local address.
C14_NeverWildcard ==
    PortBuilt =>
        /\ advertised[1] # Wildcard
        /\ SubSeq(PortFields, 1, 4) # <<<<"0">>, <<"0">>, <<"0">>, <<"0">>>>
        /\ listener_ip = Wildcard =>
              /\ advertised[1] = control_ip
              /\ SubSeq(PortFields, 1, 4) = split(control_ip, ".")

\* A command built for a listener that reports the wildcard address.
C14_Witness == PortBuilt /\ listener_ip = Wildcard /\ advertised[1] = control_ip

\* C15: the cached mode is None while the session is disconnected or no
\* TYPE was acknowledged on the current connection, and else the mode of
\* the last TYPE of the connection the server did not reject; a rejected
\* TYPE leaves the cache as it was, fails the call, and no PORT follows;
\* after close/quit the first transfer of a new connection sends TYPE.
C15_CachedModeInvariant ==
    /\ control_socket = None => last_type = None
    /\ control_socket # None => last_type = acked_type
    /\ (pc = "idle" /\ result = "TypeFailed") =>
          /\ last_type = pre.last_type
          /\ ~Did("LISTEN") /\ ~Did("PORT")
    /\ (Len(hist) = 1 /\ hist[1].ok) => hist[1].sent

\* C16: an upload of a missing local file on a connected session writes no
\* command at all, TYPE included, before it fails, and leaves every field
\* of the session, the cached mode included, as it was.
C16_MissingUploadSendsNothing ==
    (/\ Finished("stor") /\ ~op.exists
     /\ pre.control_socket # None /\ pre.control_file # None) =>
        /\ ~Did("TYPE")
        /\ Session = pre

\* C17: a transfer whose worker failed while moving the bytes (open, recv,
\* write or sendall raised) never returns normally.
C17_MoveFailureIsRaised ==
    ((\E k \in Transfers : Finished(k)) /\ Did("DATA_CLOSED") /\ move_failed) =>
        result # "ok"

\* C18: once a call has ended because the server closed the control
\* connection, the session is disconnected: the control socket is released
\* and the fields cleared, so that connect() is accepted again.
C18_LossDisconnects ==
    (pc = "idle" /\ result = "ConnectionError") =>
        /\ Session = Disconnected
        /\ ctl_open = 0

\* The calling thread waits for a reply that is not there.
ClientBlockedOnControl ==
    /\ pc \in {"greeting", "reply", "quit_reply", "type_reply", "port_reply",
               "prelim", "completion"}
    /\ s2c = <<>>

\* The calling thread waits for the data connection: in accept, or in join
\* for a worker that can neither move a chunk nor see the end of the data.
ClientBlockedOnData ==
    \/ pc = "accept" /\ dc # "pending"
    \/ /\ pc = "join" /\ worker = "running"
       /\ IF uploading THEN left > 0 /\ dbuf = BufCap ELSE dbuf = 0 /\ ~srv_end

\* The server waits for the next command.
ServerBlockedOnControl == srv = "idle" /\ c2s = <<>>

\* The server waits for the data connection: to take a chunk, or to bring
\* one or the end of the data.
ServerBlockedOnData ==
    \/ srv = "download" /\ dc \in {"pending", "open"} /\ left > 0 /\ dbuf = BufCap
    \/ srv = "upload" /\ dbuf = 0 /\ dc # "gone"

\* C19: against the compliant server every handle_list, handle_retr and
\* handle_stor call that has started eventually returns, and the pair never
\* deadlocks: while a call runs some thread or the server can take a step,
\* and never is one side blocked on the control channel while the other is
\* blocked on the data connection.
C19_TransfersReturn ==
    /\ (pc # "idle" /\ op.kind \in Transfers) ~> (pc = "idle")
    /\ [](pc # "idle" => ENABLED (MainStep \/ WorkerStep \/ ServerStep))
    /\ [](~(ClientBlockedOnControl /\ ServerBlockedOnData))
    /\ [](~(ClientBlockedOnData /\ ServerBlockedOnControl))

\* A download of a whole file, with the connection's buffer full on the
\* way, has returned after the completion reply.
C19_Witness ==
    /\ env = "compliant" /\ Finished("retr") /\ result = "ok"
    /\ Did("COMPLETION") /\ chunks = FileChunks /\ ~move_failed

\* C20: against a server that sends one reply per command and a completion
\* reply after every 1xx answer to a transfer command, the control channel
\* stays synchronised: when a call returns normally no reply is unread or
\* still to come, and no reply is in flight while the server has not yet
\* read the command the client wrote last (the next read would return a
\* stale reply).
C20_ControlChannelInSync ==
    /\ (pc = "idle" /\ result = "ok") =>
          (s2c = <<>> /\ c2s = <<>> /\ srv \in {"off", "idle"})
    /\ c2s # <<>> => s2c = <<>>

=============================================================================
